---- MODULE Spec2Model ----
(***************************************************************************)
(* The retrieval-and-dispatch core of the AI knowledge base:               *)
(*   app/services/ai_service.py     router, usage manager, response cache, *)
(*                                  AIServiceManager.process_request       *)
(*   app/services/search_service.py SearchService._hybrid_search           *)
(* Concurrent process_request calls are coroutines that interleave at      *)
(* every await; each await on Redis or on a provider is one step.          *)
(***************************************************************************)
EXTENDS Integers, Sequences, FiniteSets, TLC

(***************************************************************************)
(* Bounds of the model.                                                    *)
(***************************************************************************)
\* concurrent process_request calls
NumRequests == 2
\* the users have made between free_tier_daily_limit - MaxHeadroom and
\* free_tier_daily_limit - 1 requests today when the calls begin
MaxHeadroom == 1
\* usage.total_tokens a remote provider reports for a completion
ProviderTokens == 7
\* applications of get_fallback_provider one walk may make
MaxHops == 5
\* calls of the local model one walk may make
MaxLocalCalls == 2
\* hits a search backend holds for the query
MaxHits == 2

(***************************************************************************)
(* Settings (app/config.py) and literals of the code.                      *)
(***************************************************************************)
free_tier_daily_limit == 50
pro_tier_daily_limit == 500
enterprise_tier_daily_limit == -1
\* len(content) of the local model's apology: its usage.total_tokens
LocalContentLen == 21
\* AIResponseCache.cache_ttl, and the default of cache_ttl.get(request_type, 300)
ttl_content_analysis == 3600
ttl_classification == 7200
ttl_summary == 1800
ttl_qa_response == 300
ttl_translation == 86400
ttl_default == 300

NoneVal == "None"

UserTier == {"free", "pro", "enterprise"}

\* schemas.RequestType
RequestType ==
    {"content_analysis", "classification", "summarization", "qa_response",
     "translation", "creative_writing", "code_generation", "mind_map",
     "knowledge_graph"}

\* request types the concurrent calls of Spec draw from
RequestTypesUsed == {"qa_response", "creative_writing"}

UserIds == {"u1", "u2"}

Contents == {"q1"}

ProviderNames == {"siliconflow", "openai", "local"}

\* schemas.AIRequest: the field values the calls of Spec draw from
AIRequests ==
    [user_id : UserIds, user_tier : UserTier, request_type : RequestTypesUsed,
     content : Contents, system_prompt : {NoneVal}, temperature : {7},
     max_tokens : {2000}, context : {NoneVal}]

\* the fixed answer of LocalModelProvider.chat_completion
LocalContent == "apology"

\* the answer of a remote provider
RemoteContent == "answer"

(***************************************************************************)
(* Pure functions of the router, the usage manager and the cache.          *)
(***************************************************************************)
\* Settings.get_tier_limits(tier)["daily_requests"]
daily_requests_limit(tier) ==
    CASE tier = "free" -> free_tier_daily_limit
      [] tier = "pro" -> pro_tier_daily_limit
      [] tier = "enterprise" -> enterprise_tier_daily_limit
      [] OTHER -> free_tier_daily_limit

\* AIServiceRouter.get_best_provider_for_task
get_best_provider_for_task(request_type, openai_key) ==
    CASE request_type \in {"content_analysis", "text_generation",
                           "translation", "summarization"} -> "siliconflow"
      [] request_type \in {"creative_writing", "code_generation"} ->
            IF openai_key THEN "openai" ELSE "siliconflow"
      [] OTHER -> "siliconflow"

\* a routing of the free tier that leaves siliconflow one request late
select_provider_one_late(user_tier, request_type, siliconflow_daily, openai_key) ==
    IF user_tier = "free"
    THEN IF siliconflow_daily <= free_tier_daily_limit
         THEN "siliconflow" ELSE "local"
    ELSE "siliconflow"

\* a routing of the free tier that leaves siliconflow one request early
select_provider_one_early(user_tier, request_type, siliconflow_daily, openai_key) ==
    IF user_tier = "free"
    THEN IF siliconflow_daily + 1 < free_tier_daily_limit
         THEN "siliconflow" ELSE "local"
    ELSE "siliconflow"

\* AIServiceRouter.select_provider; siliconflow_daily is
\* current_usage.get("siliconflow_daily", 0)
select_provider(user_tier, request_type, siliconflow_daily, openai_key) ==
    IF user_tier = "free"
    THEN IF siliconflow_daily < free_tier_daily_limit
         THEN "siliconflow" ELSE "local"
    ELSE IF user_tier = "pro"
    THEN IF request_type \in {"complex_analysis", "creative_writing"}
         THEN IF openai_key THEN "openai" ELSE "siliconflow"
         ELSE "siliconflow"
    ELSE IF user_tier = "enterprise"
    THEN get_best_provider_for_task(request_type, openai_key)
    ELSE "siliconflow"

\* a fallback map that sends the local model back to openai
get_fallback_provider_cyclic(failed_provider) ==
    CASE failed_provider = "openai" -> "siliconflow"
      [] failed_provider = "siliconflow" -> "local"
      [] failed_provider = "local" -> "openai"
      [] OTHER -> NoneVal

\* AIServiceRouter.get_fallback_provider: fallback_map.get(failed_provider)
get_fallback_provider(failed_provider) ==
    CASE failed_provider = "openai" -> "siliconflow"
      [] failed_provider = "siliconflow" -> "local"
      [] failed_provider = "local" -> NoneVal
      [] OTHER -> NoneVal

\* a comparison that treats the limit as a number whatever its sign
usage_limit_reached_unguarded(user_tier, daily_requests) ==
    daily_requests >= daily_requests_limit(user_tier)

\* UsageManager.check_usage_limit's comparison: TRUE when RateLimitError is raised
usage_limit_reached(user_tier, daily_requests) ==
    LET daily_limit == daily_requests_limit(user_tier)
    IN  daily_limit > 0 /\ daily_requests >= daily_limit

\* AIResponseCache.generate_cache_key: the md5 of json.dumps(request_data,
\* sort_keys=True) is a function of every field of request_data, prefixed by
\* the request type; distinct dumps are taken to hash apart.
generate_cache_key(request_data, request_type) ==
    <<"ai_cache", request_type, request_data>>

\* AIResponseCache.cache_ttl.get(request_type, 300)
cache_ttl(request_type) ==
    CASE request_type = "content_analysis" -> ttl_content_analysis
      [] request_type = "classification" -> ttl_classification
      [] request_type = "summary" -> ttl_summary
      [] request_type = "qa_response" -> ttl_qa_response
      [] request_type = "translation" -> ttl_translation
      [] OTHER -> ttl_default

\* LocalModelProvider.chat_completion: the content and usage.total_tokens of
\* the completion it returns for any messages
LocalModelProvider_chat_completion(messages) ==
    [content |-> LocalContent, finish_reason |-> "stop",
     total_tokens |-> LocalContentLen]

\* schemas.AIResponse as process_request builds it
AIResponse(content, provider, tokens_used, request_type, error) ==
    [content |-> content, provider |-> provider, tokens_used |-> tokens_used,
     request_type |-> request_type, error |-> error]

NoResponse == AIResponse(NoneVal, NoneVal, 0, NoneVal, NoneVal)

(***************************************************************************)
(* State.                                                                  *)
(***************************************************************************)
VARIABLES
    openai_api_key,  \* settings.openai_api_key is set
    redis_usage,     \* usage:{user_id}:daily:{today}:{requests|tokens|<provider>}
    prior_usage,     \* history: the counters when the calls began
    redis_cache,     \* ai_cache:{request_type}:{hash} -> the entry setex stored
    pc,              \* where each process_request call stands
    request,         \* the AIRequest of each call
    provider_name,   \* the provider select_provider chose for the call
    completion,      \* what _call_provider returned to the call
    result,          \* what the call returned or raised
    trace,           \* history: the steps each call has taken, in order
    started_after,   \* history: the calls that had ended when the call began
    ttl_elapsed,     \* history: a cache entry has expired
    chain_cur,       \* fallback walk: the provider id the walk stands at
    chain_path,      \* fallback walk: the provider ids left behind, in order
    local_messages,  \* the request the local model was last called with
    local_result,    \* what the local model returned for it
    local_calls,     \* how often the local model has been called
    es_index,        \* the hits the lexical backend holds for the query
    vector_index,    \* the matches the vector backend holds for the query
    search_args,     \* limit, use_vector and use_ai of the _hybrid_search call
    search_pc,       \* where the _hybrid_search call stands
    results,         \* the list `results` of _hybrid_search
    search_outcome,  \* what _hybrid_search returned or raised
    backends,        \* whether the lexical and the vector backend answer
    branches,        \* history: how the lexical and the vector branch ended
    search_call,     \* the method the caller entered, and the cache's answer
    search_result,   \* what SearchService.search returned or raised
    text,            \* _split_text: the text to split
    chunk_size,      \* _split_text: chunk_size
    overlap,         \* _split_text: overlap
    start,           \* _split_text: the local `start`
    chunks,          \* _split_text: the list `chunks`
    spans,           \* history: <<start, end>> of each iteration, in order
    split_pc,        \* where the _split_text call stands
    route_args,      \* the arguments of a select_provider call
    route_result,    \* what the select_provider call returned
    seen,            \* history: the counters each call read at its two reads
    utc_hour,        \* the time, in hours since a midnight UTC
    utc_offset,      \* the server's time zone: local time minus UTC, in hours
    requests_key,    \* usage:{user_id}:daily:{date}:requests, by date
    usage_log,       \* history: the usage calls, their time and their date
    collection,      \* the documents both search backends index
    filters,         \* the dict `filters` SearchService.search builds
    es_query,        \* what search_documents answered
    vector_query     \* what search_vectors answered

chain_vars ==
    <<chain_cur, chain_path, local_messages, local_result, local_calls>>

search_vars ==
    <<es_index, vector_index, search_args, search_pc, results, search_outcome,
      backends, branches, search_call, search_result>>

split_vars == <<text, chunk_size, overlap, start, chunks, spans, split_pc>>

route_vars == <<route_args, route_result>>

day_vars == <<utc_hour, utc_offset, requests_key, usage_log>>

filter_vars == <<collection, filters, es_query, vector_query>>

ai_vars ==
    <<openai_api_key, redis_usage, prior_usage, redis_cache, pc, request, provider_name,
      completion, result, trace, started_after, ttl_elapsed, seen>>

Calls == 1..NumRequests

UsageFields == {"requests", "tokens", "siliconflow", "openai", "local"}

NoCompletion == [content |-> NoneVal, total_tokens |-> 0]

NoResult == [kind |-> "none", source |-> NoneVal, response |-> NoResponse]

Raised(exception) ==
    [kind |-> exception, source |-> NoneVal, response |-> NoResponse]

Returned(source, response) ==
    [kind |-> "response", source |-> source, response |-> response]

\* request.dict(): every field of the AIRequest
request_dict(q) == q

\* the cache key process_request passes to the cache for the call's request
cache_key_of(q) == generate_cache_key(request_dict(q), q.request_type)

Step(r, op, detail) == trace' = [trace EXCEPT ![r] = Append(@, <<op, detail>>)]

\* the providers a call has invoked, in order
IsInvocation(e) == e[1] \in {"call_ok", "call_failed", "fallback"}
invoked(r) == SelectSeq(trace[r], IsInvocation)

\* how often a call has taken the step <<op, detail>>
Count(r, op, detail) ==
    Cardinality({i \in 1..Len(trace[r]) : trace[r][i] = <<op, detail>>})

Ended(r) == pc[r] \in {"done", "raised"}

\* the daily_requests check_usage_limit read and the siliconflow_daily
\* select_provider was given, -1 before the read
NoneSeen == [check |-> -1, route |-> -1]

\* no process_request call has begun
NoCalls ==
    /\ prior_usage = redis_usage
    /\ redis_cache = <<>>
    /\ pc = [r \in Calls |-> "idle"]
    /\ request = [r \in Calls |-> NoneVal]
    /\ provider_name = [r \in Calls |-> NoneVal]
    /\ completion = [r \in Calls |-> NoCompletion]
    /\ result = [r \in Calls |-> NoResult]
    /\ trace = [r \in Calls |-> <<>>]
    /\ started_after = [r \in Calls |-> {}]
    /\ ttl_elapsed = FALSE
    /\ seen = [r \in Calls |-> NoneSeen]

\* the users have made k requests today, all answered by siliconflow without
\* token usage reported
UsageAfter(k) ==
    [u \in UserIds |->
        [f \in UsageFields |->
            IF f \in {"requests", "siliconflow"} THEN k ELSE 0]]

InitAI ==
    /\ openai_api_key \in BOOLEAN
    /\ \E k \in 1..MaxHeadroom :
          redis_usage = UsageAfter(free_tier_daily_limit - k)
    /\ NoCalls

\* the dispatch side at rest, for the specifications of the other components
AIAtRest ==
    /\ openai_api_key = FALSE
    /\ redis_usage = UsageAfter(0)
    /\ NoCalls

(***************************************************************************)
(* AIServiceManager.process_request, one action per await.                 *)
(***************************************************************************)
\* a caller submits an AIRequest; the calls are numbered in the order they
\* begin, and the users as they first appear (both start the day alike)
Receive(r) ==
    /\ pc[r] = "idle"
    /\ IF r = 1 THEN TRUE ELSE pc[r - 1] # "idle"
    /\ \E q \in AIRequests :
          /\ r = 1 => q.user_id = "u1"
          /\ request' = [request EXCEPT ![r] = q]
    /\ pc' = [pc EXCEPT ![r] = "check_usage_limit"]
    /\ started_after' = [started_after EXCEPT ![r] = {s \in Calls : Ended(s)}]
    /\ UNCHANGED <<chain_vars, search_vars, split_vars, route_vars, day_vars,
                   filter_vars,
                   seen, openai_api_key, redis_usage,
                   prior_usage, redis_cache, provider_name,
                   completion, result, trace, ttl_elapsed>>

\* a quota check that counts the request before comparing, and leaves a
\* denied request counted
check_usage_limit_counting_denied(r) ==
    /\ pc[r] = "check_usage_limit"
    /\ LET q == request[r]
           daily_requests == redis_usage[q.user_id]["requests"]
       IN  \/ /\ usage_limit_reached(q.user_tier, daily_requests)
              /\ redis_usage' = [redis_usage EXCEPT
                                    ![q.user_id]["requests"] = @ + 1]
              /\ pc' = [pc EXCEPT ![r] = "raised"]
              /\ result' = [result EXCEPT ![r] = Raised("RateLimitError")]
              /\ Step(r, "check", "deny")
              /\ seen' = [seen EXCEPT ![r].check = daily_requests]
           \/ /\ ~usage_limit_reached(q.user_tier, daily_requests)
              /\ pc' = [pc EXCEPT ![r] = "get_cached_response"]
              /\ Step(r, "check", "pass")
              /\ seen' = [seen EXCEPT ![r].check = daily_requests]
              /\ UNCHANGED <<result, redis_usage>>
           \/ /\ pc' = [pc EXCEPT ![r] = "fallback"]
              /\ Step(r, "check", "error")
              /\ UNCHANGED <<result, redis_usage, seen>>
    /\ UNCHANGED <<chain_vars, search_vars, split_vars, route_vars, day_vars,
                   filter_vars,
                   openai_api_key, prior_usage,
                   redis_cache, request, provider_name, completion,
                   started_after, ttl_elapsed>>

\* UsageManager.check_usage_limit: reads today's counters and compares the
\* request counter with the tier's limit; a Redis error is no RateLimitError
\* and no AIServiceError, so process_request falls back
check_usage_limit(r) ==
    /\ pc[r] = "check_usage_limit"
    /\ LET q == request[r]
           daily_requests == redis_usage[q.user_id]["requests"]
       IN  \/ /\ usage_limit_reached(q.user_tier, daily_requests)
              /\ pc' = [pc EXCEPT ![r] = "raised"]
              /\ result' = [result EXCEPT ![r] = Raised("RateLimitError")]
              /\ Step(r, "check", "deny")
              /\ seen' = [seen EXCEPT ![r].check = daily_requests]
           \/ /\ ~usage_limit_reached(q.user_tier, daily_requests)
              /\ pc' = [pc EXCEPT ![r] = "get_cached_response"]
              /\ Step(r, "check", "pass")
              /\ seen' = [seen EXCEPT ![r].check = daily_requests]
              /\ UNCHANGED result
           \/ /\ pc' = [pc EXCEPT ![r] = "fallback"]
              /\ Step(r, "check", "error")
              /\ UNCHANGED <<result, seen>>
    /\ UNCHANGED <<chain_vars, search_vars, split_vars, route_vars, day_vars,
                   filter_vars,
                   openai_api_key, redis_usage, prior_usage, redis_cache, request,
                   provider_name, completion, started_after, ttl_elapsed>>

\* a lookup that goes on to the provider although the entry is there
get_cached_response_ignoring_hit(r) ==
    /\ pc[r] = "get_cached_response"
    /\ \/ /\ pc' = [pc EXCEPT ![r] = "get_current_usage"]
          /\ Step(r, "lookup", "miss")
       \/ /\ pc' = [pc EXCEPT ![r] = "get_current_usage"]
          /\ Step(r, "lookup", "error")
    /\ UNCHANGED <<chain_vars, search_vars, split_vars, route_vars, day_vars,
                   filter_vars,
                   seen, openai_api_key, redis_usage,
                   prior_usage, redis_cache, request, provider_name,
                   completion, result, started_after, ttl_elapsed>>

\* a lookup whose Redis error is not caught: it reaches the except Exception
\* of process_request
get_cached_response_unguarded(r) ==
    /\ pc[r] = "get_cached_response"
    /\ LET cache_key == cache_key_of(request[r])
       IN  \/ /\ cache_key \in DOMAIN redis_cache
              /\ pc' = [pc EXCEPT ![r] = "done"]
              /\ result' = [result EXCEPT ![r] =
                               Returned("cache", redis_cache[cache_key].value)]
              /\ Step(r, "lookup", "hit")
           \/ /\ cache_key \notin DOMAIN redis_cache
              /\ pc' = [pc EXCEPT ![r] = "get_current_usage"]
              /\ Step(r, "lookup", "miss")
              /\ UNCHANGED result
           \/ /\ pc' = [pc EXCEPT ![r] = "fallback"]
              /\ Step(r, "lookup", "error")
              /\ UNCHANGED result
    /\ UNCHANGED <<chain_vars, search_vars, split_vars, route_vars, day_vars,
                   filter_vars,
                   seen, openai_api_key, redis_usage,
                   prior_usage, redis_cache, request, provider_name,
                   completion, started_after, ttl_elapsed>>

\* a lookup that counts the request it answers from the cache
get_cached_response_counting_hit(r) ==
    /\ pc[r] = "get_cached_response"
    /\ LET cache_key == cache_key_of(request[r])
       IN  \/ /\ cache_key \in DOMAIN redis_cache
              /\ pc' = [pc EXCEPT ![r] = "done"]
              /\ result' = [result EXCEPT ![r] =
                               Returned("cache", redis_cache[cache_key].value)]
              /\ redis_usage' = [redis_usage EXCEPT
                                    ![request[r].user_id]["requests"] = @ + 1]
              /\ Step(r, "lookup", "hit")
           \/ /\ cache_key \notin DOMAIN redis_cache
              /\ pc' = [pc EXCEPT ![r] = "get_current_usage"]
              /\ Step(r, "lookup", "miss")
              /\ UNCHANGED <<result, redis_usage>>
           \/ /\ pc' = [pc EXCEPT ![r] = "get_current_usage"]
              /\ Step(r, "lookup", "error")
              /\ UNCHANGED <<result, redis_usage>>
    /\ UNCHANGED <<chain_vars, search_vars, split_vars, route_vars, day_vars,
                   filter_vars,
                   seen, openai_api_key, prior_usage, redis_cache, request,
                   provider_name, completion, started_after, ttl_elapsed>>

\* AIResponseCache.get_cached_response and the `if cached_response` of
\* process_request: a hit returns the cached AIResponse; an error of the
\* backend is caught and None is returned, as for a miss
get_cached_response(r) ==
    /\ pc[r] = "get_cached_response"
    /\ LET cache_key == cache_key_of(request[r])
       IN  \/ /\ cache_key \in DOMAIN redis_cache
              /\ pc' = [pc EXCEPT ![r] = "done"]
              /\ result' = [result EXCEPT ![r] =
                               Returned("cache", redis_cache[cache_key].value)]
              /\ Step(r, "lookup", "hit")
           \/ /\ cache_key \notin DOMAIN redis_cache
              /\ pc' = [pc EXCEPT ![r] = "get_current_usage"]
              /\ Step(r, "lookup", "miss")
              /\ UNCHANGED result
           \/ /\ pc' = [pc EXCEPT ![r] = "get_current_usage"]
              /\ Step(r, "lookup", "error")
              /\ UNCHANGED result
    /\ UNCHANGED <<chain_vars, search_vars, split_vars, route_vars, day_vars,
                   filter_vars,
                   seen, openai_api_key, redis_usage, prior_usage, redis_cache, request,
                   provider_name, completion, started_after, ttl_elapsed>>

\* UsageManager.get_current_usage followed by AIServiceRouter.select_provider
get_current_usage(r) ==
    /\ pc[r] = "get_current_usage"
    /\ LET q == request[r]
           siliconflow_daily == redis_usage[q.user_id]["siliconflow"]
       IN  \/ /\ provider_name' = [provider_name EXCEPT ![r] =
                     select_provider(q.user_tier, q.request_type,
                                     siliconflow_daily, openai_api_key)]
              /\ pc' = [pc EXCEPT ![r] = "call_provider"]
              /\ Step(r, "usage", "read")
              /\ seen' = [seen EXCEPT ![r].route = siliconflow_daily]
           \/ /\ pc' = [pc EXCEPT ![r] = "fallback"]
              /\ Step(r, "usage", "error")
              /\ UNCHANGED <<provider_name, seen>>
    /\ UNCHANGED <<chain_vars, search_vars, split_vars, route_vars, day_vars,
                   filter_vars,
                   openai_api_key, redis_usage, prior_usage, redis_cache, request,
                   completion, result, started_after, ttl_elapsed>>

\* AIServiceManager._call_provider: the local model always answers; a remote
\* provider answers (OpenAI only with an API key) or raises AIServiceError,
\* which process_request re-raises
call_provider(r) ==
    /\ pc[r] = "call_provider"
    /\ LET p == provider_name[r]
       IN  \/ /\ p = "local"
              /\ LET c == LocalModelProvider_chat_completion(request[r].content)
                 IN  completion' = [completion EXCEPT ![r] =
                         [content |-> c.content, total_tokens |-> c.total_tokens]]
              /\ pc' = [pc EXCEPT ![r] = "incr_requests"]
              /\ Step(r, "call_ok", p)
              /\ UNCHANGED result
           \/ /\ p # "local"
              /\ p = "openai" => openai_api_key
              /\ completion' = [completion EXCEPT ![r] =
                     [content |-> RemoteContent, total_tokens |-> ProviderTokens]]
              /\ pc' = [pc EXCEPT ![r] = "incr_requests"]
              /\ Step(r, "call_ok", p)
              /\ UNCHANGED result
           \/ /\ p # "local"
              /\ pc' = [pc EXCEPT ![r] = "raised"]
              /\ result' = [result EXCEPT ![r] = Raised("AIServiceError")]
              /\ Step(r, "call_failed", p)
              /\ UNCHANGED completion
    /\ UNCHANGED <<chain_vars, search_vars, split_vars, route_vars, day_vars,
                   filter_vars,
                   seen, openai_api_key, redis_usage, prior_usage, redis_cache, request,
                   provider_name, started_after, ttl_elapsed>>

\* an increment done as a read and a later write: it writes the value the
\* counter had when the calls began plus `amount`, losing what other calls
\* added since
incr_lost_update(r, here, field, amount, next) ==
    /\ pc[r] = here
    /\ \/ /\ redis_usage' =
                [redis_usage EXCEPT ![request[r].user_id][field] =
                    prior_usage[request[r].user_id][field] + amount]
          /\ pc' = [pc EXCEPT ![r] = next]
          /\ Step(r, "incr", here)
       \/ /\ pc' = [pc EXCEPT ![r] = "fallback"]
          /\ Step(r, "incr_error", here)
          /\ UNCHANGED redis_usage
    /\ UNCHANGED <<chain_vars, search_vars, split_vars, route_vars, day_vars,
                   filter_vars,
                   seen, openai_api_key, prior_usage, redis_cache, request,
                   provider_name, completion, result, started_after,
                   ttl_elapsed>>

\* one redis INCR of UsageManager.update_usage on the counter `field` of the
\* call's user, by `amount`; an error of Redis sends process_request to the
\* fallback
incr(r, here, field, amount, next) ==
    /\ pc[r] = here
    /\ \/ /\ redis_usage' = [redis_usage EXCEPT
                                ![request[r].user_id][field] = @ + amount]
          /\ pc' = [pc EXCEPT ![r] = next]
          /\ Step(r, "incr", here)
       \/ /\ pc' = [pc EXCEPT ![r] = "fallback"]
          /\ Step(r, "incr_error", here)
          /\ UNCHANGED redis_usage
    /\ UNCHANGED <<chain_vars, search_vars, split_vars, route_vars, day_vars,
                   filter_vars,
                   seen, openai_api_key, prior_usage, redis_cache, request, provider_name,
                   completion, result, started_after, ttl_elapsed>>

\* an update that hands over to the cache store after its first increment
incr_requests_then_store(r) ==
    incr(r, "incr_requests", "requests", 1, "cache_response")

\* UsageManager.update_usage: incr {daily_key}:requests
incr_requests(r) == incr(r, "incr_requests", "requests", 1, "incr_tokens")

\* UsageManager.update_usage: incr {daily_key}:tokens by tokens_used
incr_tokens(r) ==
    incr(r, "incr_tokens", "tokens", completion[r].total_tokens, "incr_provider")

\* UsageManager.update_usage: incr {daily_key}:{provider}
incr_provider(r) ==
    /\ provider_name[r] \in ProviderNames
    /\ incr(r, "incr_provider", provider_name[r], 1, "expire")

\* an update whose failed EXPIRE is ignored: the call goes on to the store
expire_ignoring_error(r) ==
    /\ pc[r] = "expire"
    /\ \/ /\ pc' = [pc EXCEPT ![r] = "cache_response"]
          /\ Step(r, "expire", "ok")
       \/ /\ pc' = [pc EXCEPT ![r] = "cache_response"]
          /\ Step(r, "expire", "error")
    /\ UNCHANGED <<chain_vars, search_vars, split_vars, route_vars, day_vars,
                   filter_vars,
                   seen, openai_api_key, redis_usage, prior_usage, redis_cache,
                   request, provider_name, completion, result, started_after,
                   ttl_elapsed>>

\* UsageManager.update_usage: the three EXPIRE calls (7 days retention)
expire(r) ==
    /\ pc[r] = "expire"
    /\ \/ /\ pc' = [pc EXCEPT ![r] = "cache_response"]
          /\ Step(r, "expire", "ok")
       \/ /\ pc' = [pc EXCEPT ![r] = "fallback"]
          /\ Step(r, "expire", "error")
    /\ UNCHANGED <<chain_vars, search_vars, split_vars, route_vars, day_vars,
                   filter_vars,
                   seen, openai_api_key, redis_usage, prior_usage, redis_cache, request,
                   provider_name, completion, result, started_after,
                   ttl_elapsed>>

\* the AIResponse process_request builds from the provider's completion
ai_response(r) ==
    AIResponse(completion[r].content, provider_name[r],
               completion[r].total_tokens, request[r].request_type, NoneVal)

\* AIResponseCache.cache_response, then `return ai_response`: setex stores the
\* response under the key with the TTL of the request type; an error of the
\* backend is caught
cache_response(r) ==
    /\ pc[r] = "cache_response"
    /\ LET cache_key == cache_key_of(request[r])
           entry == [value |-> ai_response(r),
                     ttl |-> cache_ttl(request[r].request_type)]
       IN  \/ /\ redis_cache' =
                     [k \in DOMAIN redis_cache \cup {cache_key} |->
                         IF k = cache_key THEN entry ELSE redis_cache[k]]
              /\ Step(r, "store", "ok")
           \/ /\ Step(r, "store", "error")
              /\ UNCHANGED redis_cache
    /\ pc' = [pc EXCEPT ![r] = "done"]
    /\ result' = [result EXCEPT ![r] = Returned("provider", ai_response(r))]
    /\ UNCHANGED <<chain_vars, search_vars, split_vars, route_vars, day_vars,
                   filter_vars,
                   seen, openai_api_key, redis_usage, prior_usage, request, provider_name,
                   completion, started_after, ttl_elapsed>>

\* AIServiceManager._fallback_processing: the local model's answer with
\* tokens_used=0 and the error annotation; no usage update, no cache store
fallback_processing(r) ==
    /\ pc[r] = "fallback"
    /\ LET c == LocalModelProvider_chat_completion(request[r].content)
       IN  result' = [result EXCEPT ![r] =
               Returned("fallback",
                        AIResponse(c.content, "local", 0,
                                   request[r].request_type, "degraded"))]
    /\ pc' = [pc EXCEPT ![r] = "done"]
    /\ Step(r, "fallback", "local")
    /\ UNCHANGED <<chain_vars, search_vars, split_vars, route_vars, day_vars,
                   filter_vars,
                   seen, openai_api_key, redis_usage, prior_usage, redis_cache, request,
                   provider_name, completion, started_after, ttl_elapsed>>

\* Redis drops a cache entry whose TTL has run out
ttl_expire ==
    /\ \E k \in DOMAIN redis_cache :
          redis_cache' = [j \in DOMAIN redis_cache \ {k} |-> redis_cache[j]]
    /\ ttl_elapsed' = TRUE
    /\ UNCHANGED <<chain_vars, search_vars, split_vars, route_vars, day_vars,
                   filter_vars,
                   seen, openai_api_key, redis_usage, prior_usage, pc, request, provider_name,
                   completion, result, trace, started_after>>

process_request(r) ==
    \/ check_usage_limit(r)
    \/ get_cached_response(r)
    \/ get_current_usage(r)
    \/ call_provider(r)
    \/ incr_requests(r)
    \/ incr_tokens(r)
    \/ incr_provider(r)
    \/ expire(r)
    \/ cache_response(r)
    \/ fallback_processing(r)

NextAI ==
    \/ \E r \in Calls : Receive(r)
    \/ \E r \in Calls : process_request(r)
    \/ ttl_expire

vars ==
    <<ai_vars, chain_vars, split_vars, route_vars, search_vars, day_vars,
      filter_vars>>

(***************************************************************************)
(* The fallback chain and the local model, AIServiceRouter and             *)
(* LocalModelProvider: a walk applies get_fallback_provider until it       *)
(* answers None, and calls the provider the chain ends in.                 *)
(***************************************************************************)
\* provider ids a walk may start from: the router's providers and an id the
\* fallback map does not hold
ProviderIds == ProviderNames \cup {"unknown"}

\* the requests _call_provider may pass to the local model
LocalRequests ==
    [system_prompt : {NoneVal, "sp"}, content : {"q1", "q2"},
     temperature : {0, 20}, max_tokens : {1, 4000}]

\* AIServiceManager._call_provider: the messages and keyword arguments built
\* from the request
call_messages(q) ==
    [system |-> IF q.system_prompt = NoneVal THEN "default" ELSE q.system_prompt,
     user |-> q.content, temperature |-> q.temperature,
     max_tokens |-> q.max_tokens]

NoLocalResult ==
    [content |-> NoneVal, finish_reason |-> NoneVal, total_tokens |-> 0]

ChainAtRest ==
    /\ chain_cur = NoneVal
    /\ chain_path = <<>>
    /\ local_messages = <<>>
    /\ local_result = NoLocalResult
    /\ local_calls = 0

InitChain ==
    /\ chain_cur \in ProviderIds
    /\ chain_path = <<>>
    /\ local_messages = <<>>
    /\ local_result = NoLocalResult
    /\ local_calls = 0

\* one application of get_fallback_provider to the provider the walk is at
fallback_hop ==
    /\ chain_cur # NoneVal
    /\ Len(chain_path) < MaxHops
    /\ chain_path' = Append(chain_path, chain_cur)
    /\ chain_cur' = get_fallback_provider(chain_cur)
    /\ UNCHANGED <<ai_vars, search_vars, split_vars, route_vars, day_vars,
                   filter_vars,
                   local_messages, local_result,
                   local_calls>>

\* a call of the provider the chain ends in
local_call ==
    /\ chain_cur \in ProviderNames
    /\ get_fallback_provider(chain_cur) = NoneVal
    /\ local_calls < MaxLocalCalls
    /\ \E q \in LocalRequests :
          /\ local_messages' = <<call_messages(q)>>
          /\ local_result' = LocalModelProvider_chat_completion(call_messages(q))
    /\ local_calls' = local_calls + 1
    /\ UNCHANGED <<ai_vars, search_vars, split_vars, route_vars, day_vars,
                   filter_vars,
                   chain_cur, chain_path>>

NextChain == fallback_hop \/ local_call

(***************************************************************************)
(* SearchService._hybrid_search.                                           *)
(***************************************************************************)
FileIds == {7, 8}

\* _score of a lexical hit and cosine score of a vector match, in tenths; the
\* vector query asks for score_threshold=0.7
KeywordScores == {6, 8}
VectorScores == {7, 9}

Min(a, b) == IF a <= b THEN a ELSE b

Take(s, n) == SubSeq(s, 1, Min(n, Len(s)))

NonIncreasing(s) == \A i \in 1..Len(s) - 1 : s[i].score >= s[i + 1].score

DistinctIds(s) ==
    \A i \in 1..Len(s), j \in 1..Len(s) : i # j => s[i].file_id # s[j].file_id

SeqsUpTo(S, n) == UNION {[1..k -> S] : k \in 0..n}

\* the methods class AIServiceManager defines
AIServiceManagerMethods ==
    {"process_request", "_call_provider", "_fallback_processing"}

\* schemas.SearchResult: its fields, and those without a default
SearchResultFields ==
    {"file_id", "filename", "title", "content_snippet", "score", "file_type",
     "category", "tags", "created_at", "highlight"}

SearchResultRequired ==
    {"file_id", "filename", "content_snippet", "score", "file_type",
     "created_at"}

\* SearchResult(**kwargs): pydantic raises ValidationError when a required
\* field is missing and ignores the keywords the model does not declare
SearchResult(kwargs) ==
    IF SearchResultRequired \subseteq DOMAIN kwargs
    THEN [valid |-> TRUE,
          fields |-> [f \in DOMAIN kwargs \cap SearchResultFields |-> kwargs[f]]]
    ELSE [valid |-> FALSE, fields |-> <<>>]

\* the keywords _hybrid_search builds a lexical result from
keyword_result(hit) ==
    SearchResult([file_id |-> hit.file_id, title |-> "", content |-> "",
                  highlight |-> <<>>, score |-> hit.score,
                  search_type |-> "keyword", file_type |-> "",
                  created_at |-> NoneVal])

\* the keywords _hybrid_search builds a vector result from
vector_result(match) ==
    SearchResult([file_id |-> match.file_id, title |-> "", content |-> "",
                  highlight |-> <<>>, score |-> match.score,
                  search_type |-> "vector", file_type |-> "",
                  created_at |-> NoneVal])

\* the loop over vector_results: a match whose file_id is in results already
\* is skipped, the others are appended; an exception ends the loop and is
\* caught, leaving results as it stands
RECURSIVE append_vector_results(_, _)
append_vector_results(res, matches) ==
    IF matches = <<>> THEN res
    ELSE IF \E i \in 1..Len(res) : res[i].file_id = Head(matches).file_id
    THEN append_vector_results(res, Tail(matches))
    ELSE IF ~vector_result(Head(matches)).valid THEN res
    ELSE append_vector_results(
             Append(res, vector_result(Head(matches)).fields), Tail(matches))

\* SearchService._ai_enhance_results: returns results as given, whether the
\* AI call succeeds or fails
ai_enhance_results(res) == res

\* a sort that leaves the list in the order the results arrived
sort_by_score_as_collected(s) == s

\* results.sort(key=lambda x: x.score, reverse=True): stable
RECURSIVE sort_by_score(_)
sort_by_score(s) ==
    IF s = <<>> THEN <<>>
    ELSE LET x == s[Len(s)]
             front == sort_by_score(SubSeq(s, 1, Len(s) - 1))
             ahead == {i \in 1..Len(front) : front[i].score >= x.score}
             n == Cardinality(ahead)
         IN  SubSeq(front, 1, n) \o <<x>> \o SubSeq(front, n + 1, Len(front))

NoOutcome == [kind |-> "none", error |-> NoneVal, results |-> <<>>]

\* schemas.SearchRequest: its fields
SearchRequestFields ==
    {"query", "knowledge_base_id", "file_types", "categories", "tags",
     "limit", "offset", "search_type"}

\* the attributes SearchService.search reads from its request once the cache
\* has not answered
SearchRequestReads ==
    {"query", "knowledge_base_id", "file_type", "limit", "use_vector",
     "use_ai"}

\* schemas.SearchResponse: its fields, and those without a default
SearchResponseFields ==
    {"results", "total", "query", "search_type", "processing_time",
     "suggestions"}

SearchResponseRequired ==
    {"results", "total", "query", "search_type", "processing_time"}

\* SearchResponse(**kwargs): pydantic raises ValidationError when a required
\* field is missing and ignores the keywords the model does not declare
SearchResponse(kwargs) ==
    IF SearchResponseRequired \subseteq DOMAIN kwargs
    THEN [valid |-> TRUE,
          fields |->
              [f \in DOMAIN kwargs \cap SearchResponseFields |-> kwargs[f]]]
    ELSE [valid |-> FALSE, fields |-> <<>>]

NoSearchResponse == [kind |-> "none", error |-> NoneVal, fields |-> <<>>]

\* search's `except Exception`: whatever was raised leaves as SearchError
SearchFailed == [kind |-> "raised", error |-> "SearchError", fields |-> <<>>]

\* the response a cache hit of search is parsed from
CachedSearchResponse ==
    [kind |-> "returned", error |-> NoneVal,
     fields |-> [results |-> <<>>, total |-> 0, query |-> "q",
                 search_type |-> "hybrid", processing_time |-> 0]]

\* what search does with the outcome of its _hybrid_search call: it builds
\* the SearchResponse and returns it, or leaves with SearchError; a
\* _hybrid_search call entered directly has no response
search_response(outcome) ==
    IF search_call.entry # "search" THEN NoSearchResponse
    ELSE IF outcome.kind = "raised" THEN SearchFailed
    ELSE LET built == SearchResponse(
                          [query |-> "q", total |-> Len(outcome.results),
                           results |-> outcome.results, search_time |-> 0,
                           use_ai |-> search_args.use_ai])
         IN  IF built.valid
             THEN [kind |-> "returned", error |-> NoneVal,
                   fields |-> built.fields]
             ELSE SearchFailed

NoBranches == [lexical |-> "none", vector |-> "none"]

SearchAtRest ==
    /\ es_index = <<>>
    /\ vector_index = <<>>
    /\ search_args = [limit |-> 0, use_vector |-> FALSE, use_ai |-> FALSE]
    /\ search_pc = "ended"
    /\ results = <<>>
    /\ search_outcome = NoOutcome
    /\ backends = [lexical |-> TRUE, vector |-> TRUE]
    /\ branches = NoBranches
    /\ search_call = [entry |-> NoneVal, cached |-> FALSE]
    /\ search_result = NoSearchResponse

InitSearch ==
    /\ es_index \in {s \in SeqsUpTo([file_id : FileIds, score : KeywordScores],
                                    MaxHits) :
                        NonIncreasing(s) /\ DistinctIds(s)}
    /\ vector_index \in {s \in SeqsUpTo([file_id : FileIds,
                                         score : VectorScores], MaxHits) :
                            NonIncreasing(s)}
    /\ search_args \in [limit : 1..MaxHits, use_vector : BOOLEAN,
                        use_ai : BOOLEAN]
    /\ search_call \in {c \in [entry : {"search", "_hybrid_search"},
                               cached : BOOLEAN] :
                           c.entry = "_hybrid_search" => ~c.cached}
    /\ search_pc = search_call.entry
    /\ results = <<>>
    /\ search_outcome = NoOutcome
    /\ backends \in [lexical : BOOLEAN, vector : BOOLEAN]
    /\ branches = NoBranches
    /\ search_result = NoSearchResponse

\* SearchService.search up to its _hybrid_search call: the cache lookup, the
\* filters and the arguments, all read from the request; reading an attribute
\* SearchRequest does not declare raises AttributeError, which leaves as
\* SearchError
search ==
    /\ search_pc = "search"
    /\ IF search_call.cached /\ "use_ai" \notin SearchRequestFields
       THEN /\ search_result' = SearchFailed
            /\ search_pc' = "ended"
       ELSE IF search_call.cached /\ ~search_args.use_ai
       THEN /\ search_result' = CachedSearchResponse
            /\ search_pc' = "ended"
       ELSE IF ~(SearchRequestReads \subseteq SearchRequestFields)
       THEN /\ search_result' = SearchFailed
            /\ search_pc' = "ended"
       ELSE /\ search_pc' = "_hybrid_search"
            /\ UNCHANGED search_result
    /\ UNCHANGED <<ai_vars, chain_vars, split_vars, route_vars, day_vars,
                   filter_vars,
                   es_index, vector_index, search_args, results,
                   search_outcome, backends, branches, search_call>>

\* step 1: es_service.search_documents(size=limit), which raises SearchError
\* when the backend does not answer, and the loop that builds a result of each
\* hit; SearchError and ValidationError reach the outer except, which re-raises
keyword_search ==
    /\ search_pc = "_hybrid_search"
    /\ IF ~backends.lexical
       THEN LET raised == [kind |-> "raised", error |-> "SearchError",
                           results |-> <<>>]
            IN  /\ search_outcome' = raised
                /\ search_result' = search_response(raised)
                /\ branches' = [branches EXCEPT !.lexical = "failed"]
                /\ search_pc' = "ended"
                /\ UNCHANGED results
       ELSE LET hits == Take(es_index, search_args.limit)
                built == [i \in 1..Len(hits) |-> keyword_result(hits[i])]
                raised == [kind |-> "raised", error |-> "ValidationError",
                           results |-> <<>>]
            IN  /\ branches' = [branches EXCEPT !.lexical = "ok"]
                /\ IF \E i \in 1..Len(built) : ~built[i].valid
                   THEN /\ search_outcome' = raised
                        /\ search_result' = search_response(raised)
                        /\ search_pc' = "ended"
                        /\ UNCHANGED results
                   ELSE /\ results' =
                              [i \in 1..Len(built) |-> built[i].fields]
                        /\ search_pc' = IF search_args.use_vector
                                        THEN "vector_search" ELSE "sort"
                        /\ UNCHANGED <<search_outcome, search_result>>
    /\ UNCHANGED <<ai_vars, chain_vars, split_vars, route_vars, day_vars,
                   filter_vars,
                   es_index, vector_index, search_args, backends,
                   search_call>>

\* step 2: the query embedding, the vector query and the loop over its
\* matches, inside try/except: ai_service.get_embedding raises AttributeError
\* when AIServiceManager defines no such method, and search_vectors raises
\* when the backend does not answer
vector_search ==
    /\ search_pc = "vector_search"
    /\ IF "get_embedding" \in AIServiceManagerMethods /\ backends.vector
       THEN /\ results' = append_vector_results(
                              results, Take(vector_index, search_args.limit))
            /\ branches' = [branches EXCEPT !.vector = "ok"]
       ELSE /\ results' = results
            /\ branches' = [branches EXCEPT !.vector = "failed"]
    /\ search_pc' = "sort"
    /\ UNCHANGED <<ai_vars, chain_vars, split_vars, route_vars, day_vars,
                   filter_vars,
                   es_index, vector_index, search_args,
                   search_outcome, backends, search_call, search_result>>

\* steps 3 and 4: the optional AI enhancement, the sort and the cut to limit
sort_and_return ==
    /\ search_pc = "sort"
    /\ LET enhanced == IF search_args.use_ai /\ results # <<>>
                       THEN ai_enhance_results(results) ELSE results
           returned == [kind |-> "returned", error |-> NoneVal,
                        results |-> Take(sort_by_score(enhanced),
                                         search_args.limit)]
       IN  /\ results' = sort_by_score(enhanced)
           /\ search_outcome' = returned
           /\ search_result' = search_response(returned)
    /\ search_pc' = "ended"
    /\ UNCHANGED <<ai_vars, chain_vars, split_vars, route_vars, day_vars,
                   filter_vars,
                   es_index, vector_index, search_args, backends,
                   branches, search_call>>

NextSearch == search \/ keyword_search \/ vector_search \/ sort_and_return

(***************************************************************************)
(* SearchService._split_text (FileService._split_text is the same code).   *)
(* Offsets are Python's: the character at offset i is text[i + 1].         *)
(***************************************************************************)
\* the longest text, the largest chunk_size and the most loop iterations
MaxTextLen == 5
MaxChunkSize == 3
MaxIterations == 6

\* the sentence mark U+3002 that _split_text looks for, the space, and a
\* character that is neither
Period == "."
Space == " "
Chars == {"x", Space, Period}

\* a slice bound as Python reads it: negative counts from the end, and both
\* ends are clamped into 0..len
slice_index(i, len) ==
    IF i < 0 THEN (IF i + len < 0 THEN 0 ELSE i + len)
    ELSE IF i > len THEN len ELSE i

\* text[from:to]
slice(t, from, to) ==
    LET a == slice_index(from, Len(t))
        b == slice_index(to, Len(t))
    IN  IF a >= b THEN <<>> ELSE SubSeq(t, a + 1, b)

\* text.rfind(ch, from, to): the highest offset in text[from:to] holding ch,
\* or -1
rfind(t, ch, from, to) ==
    LET a == slice_index(from, Len(t))
        b == slice_index(to, Len(t))
        found == {i \in a..(b - 1) : t[i + 1] = ch}
    IN  IF found = {} THEN -1
        ELSE CHOOSE i \in found : \A j \in found : j <= i

\* str.strip(): without the whitespace at both ends
RECURSIVE strip(_)
strip(t) ==
    IF t = <<>> THEN t
    ELSE IF Head(t) = Space THEN strip(Tail(t))
    ELSE IF t[Len(t)] = Space THEN strip(SubSeq(t, 1, Len(t) - 1))
    ELSE t

\* where one iteration of the loop cuts: at the last sentence mark of the
\* window, else at its last space, else at start + chunk_size
chunk_end(t, from, size) ==
    LET end == from + size
        last_period == rfind(t, Period, from, end)
        last_space == rfind(t, Space, from, end)
    IN  IF end < Len(t)
        THEN IF last_period > from THEN last_period + 1
             ELSE IF last_space > from THEN last_space
             ELSE end
        ELSE end

SplitAtRest ==
    /\ text = <<>>
    /\ chunk_size = 1
    /\ overlap = 0
    /\ start = 0
    /\ chunks = <<>>
    /\ spans = <<>>
    /\ split_pc = "returned"

InitSplit ==
    /\ text \in SeqsUpTo(Chars, MaxTextLen)
    /\ chunk_size \in 1..MaxChunkSize
    /\ overlap \in 0..(chunk_size - 1)
    /\ start = 0
    /\ chunks = <<>>
    /\ spans = <<>>
    /\ split_pc = "called"

\* the entry of _split_text: a text no longer than chunk_size is returned as
\* the one chunk, whole
split_text ==
    /\ split_pc = "called"
    /\ IF Len(text) <= chunk_size
       THEN /\ chunks' = <<text>>
            /\ spans' = << <<0, Len(text)>> >>
            /\ split_pc' = "returned"
       ELSE /\ chunks' = <<>>
            /\ spans' = <<>>
            /\ split_pc' = "loop"
    /\ start' = 0
    /\ UNCHANGED <<ai_vars, chain_vars, search_vars, route_vars, day_vars,
                   filter_vars,
                   text, chunk_size, overlap>>

\* one iteration of `while start < len(text)`
split_iteration ==
    /\ split_pc = "loop"
    /\ start < Len(text)
    /\ Len(spans) < MaxIterations
    /\ LET end == chunk_end(text, start, chunk_size)
           chunk == strip(slice(text, start, end))
       IN  /\ chunks' = IF chunk # <<>> THEN Append(chunks, chunk) ELSE chunks
           /\ spans' = Append(spans, <<start, end>>)
           /\ start' = IF end < Len(text) THEN end - overlap ELSE end
    /\ UNCHANGED <<ai_vars, chain_vars, search_vars, route_vars, day_vars,
                   filter_vars,
                   text, chunk_size, overlap, split_pc>>

\* the loop ends and chunks is returned
split_return ==
    /\ split_pc = "loop"
    /\ ~(start < Len(text))
    /\ split_pc' = "returned"
    /\ UNCHANGED <<ai_vars, chain_vars, search_vars, route_vars, day_vars,
                   filter_vars,
                   text, chunk_size, overlap, start, chunks, spans>>

NextSplit == split_text \/ split_iteration \/ split_return

(***************************************************************************)
(* AIServiceRouter.select_provider, called on its own.                     *)
(***************************************************************************)
\* values of current_usage["siliconflow_daily"] on both sides of the free
\* sub-quota
UsageCounts ==
    {0, free_tier_daily_limit - 1, free_tier_daily_limit,
     free_tier_daily_limit + 1}

RouteAtRest ==
    /\ route_args = [user_tier |-> "free", request_type |-> "qa_response",
                     siliconflow_daily |-> 0, openai_key |-> FALSE]
    /\ route_result = "siliconflow"

InitRoute ==
    /\ route_args \in [user_tier : UserTier, request_type : RequestType,
                       siliconflow_daily : UsageCounts, openai_key : BOOLEAN]
    /\ route_result = NoneVal

\* router.select_provider(request.user_tier, request.request_type,
\* current_usage)
route ==
    /\ route_result = NoneVal
    /\ route_result' = select_provider(route_args.user_tier,
                                       route_args.request_type,
                                       route_args.siliconflow_daily,
                                       route_args.openai_key)
    /\ UNCHANGED <<ai_vars, chain_vars, search_vars, split_vars, day_vars,
                   filter_vars, route_args>>

NextRoute == route

(***************************************************************************)
(* The sort and the cut that end _hybrid_search, on every list `results`   *)
(* may hold when the call reaches them.                                    *)
(***************************************************************************)
\* the longest list the sort is given
MaxResults == 3

\* the entries of the list: file_id and score are what the tail reads
RankedEntries == [file_id : FileIds, score : KeywordScores \cup VectorScores]

\* a _hybrid_search call that has collected its results and stands before
\* step 3
InitSort ==
    /\ es_index = <<>>
    /\ vector_index = <<>>
    /\ search_args \in [limit : 1..MaxHits, use_vector : BOOLEAN,
                        use_ai : BOOLEAN]
    /\ search_call = [entry |-> "_hybrid_search", cached |-> FALSE]
    /\ search_pc = "sort"
    /\ results \in SeqsUpTo(RankedEntries, MaxResults)
    /\ search_outcome = NoOutcome
    /\ backends = [lexical |-> TRUE, vector |-> TRUE]
    /\ branches = [lexical |-> "ok", vector |-> "none"]
    /\ search_result = NoSearchResponse

NextSort == sort_and_return

(***************************************************************************)
(* One process_request call, for a request of every type.                  *)
(***************************************************************************)
\* schemas.AIRequest: one user's requests of every RequestType
AIRequestsOfEveryType ==
    [user_id : {"u1"}, user_tier : UserTier, request_type : RequestType,
     content : Contents, system_prompt : {NoneVal}, temperature : {7},
     max_tokens : {2000}, context : {NoneVal}]

\* the first call has been submitted on a fresh day; no other call follows
InitOneCall ==
    /\ openai_api_key \in BOOLEAN
    /\ redis_usage = UsageAfter(0)
    /\ prior_usage = redis_usage
    /\ redis_cache = <<>>
    /\ pc = [r \in Calls |-> IF r = 1 THEN "check_usage_limit" ELSE "idle"]
    /\ \E q \in AIRequestsOfEveryType :
          request = [r \in Calls |-> IF r = 1 THEN q ELSE NoneVal]
    /\ provider_name = [r \in Calls |-> NoneVal]
    /\ completion = [r \in Calls |-> NoCompletion]
    /\ result = [r \in Calls |-> NoResult]
    /\ trace = [r \in Calls |-> <<>>]
    /\ started_after = [r \in Calls |-> {}]
    /\ ttl_elapsed = FALSE
    /\ seen = [r \in Calls |-> NoneSeen]

NextOneCall == \E r \in Calls : process_request(r)

(***************************************************************************)
(* The daily key of UsageManager. get_current_usage and update_usage take  *)
(* today = datetime.now().strftime("%Y-%m-%d"): the date on the server's   *)
(* local clock. Time is counted in hours, one user's request counter is    *)
(* followed over the dates.                                                *)
(***************************************************************************)
\* steps of four hours the clock makes: two days
MaxTicks == 12
\* calls of the usage manager made while it runs
MaxUsageCalls == 2

\* time zones the server may be set to: Los Angeles, UTC, Shanghai
UtcOffsets == {-8, 0, 8}

\* the clock starts at 00:00 UTC of the day after the one hours are counted
\* from, so that the local time is never negative
Hours == {24 + 4 * n : n \in 0..MaxTicks}

\* strftime("%Y-%m-%d") of a time: its date, as days since hour 0
strftime_date(hour) == hour \div 24

Dates == {strftime_date(h + o) : h \in Hours, o \in UtcOffsets}

\* datetime.now(): naive local time
datetime_now == utc_hour + utc_offset

\* today, the date part of daily_key = f"usage:{user_id}:daily:{today}"
today == strftime_date(datetime_now)

DayAtRest ==
    /\ utc_hour = 24
    /\ utc_offset = 0
    /\ requests_key = [d \in Dates |-> 0]
    /\ usage_log = <<>>

InitDay ==
    /\ utc_hour = 24
    /\ utc_offset \in UtcOffsets
    /\ requests_key = [d \in Dates |-> 0]
    /\ usage_log = <<>>

\* four hours pass
tick ==
    /\ utc_hour < 24 + 4 * MaxTicks
    /\ utc_hour' = utc_hour + 4
    /\ UNCHANGED <<ai_vars, chain_vars, search_vars, split_vars, route_vars,
                   filter_vars, utc_offset, requests_key, usage_log>>

\* UsageManager.check_usage_limit: get_current_usage reads
\* {daily_key}:requests of today
day_check_usage_limit ==
    /\ Len(usage_log) < MaxUsageCalls
    /\ usage_log' = Append(usage_log,
                           [op |-> "check", utc |-> utc_hour, today |-> today,
                            daily_requests |-> requests_key[today]])
    /\ UNCHANGED <<ai_vars, chain_vars, search_vars, split_vars, route_vars,
                   filter_vars, utc_hour, utc_offset, requests_key>>

\* UsageManager.update_usage: incr {daily_key}:requests of today
day_update_usage ==
    /\ Len(usage_log) < MaxUsageCalls
    /\ requests_key' = [requests_key EXCEPT ![today] = @ + 1]
    /\ usage_log' = Append(usage_log,
                           [op |-> "update", utc |-> utc_hour, today |-> today,
                            daily_requests |-> requests_key[today] + 1])
    /\ UNCHANGED <<ai_vars, chain_vars, search_vars, split_vars, route_vars,
                   filter_vars, utc_hour, utc_offset>>

NextDay == tick \/ day_check_usage_limit \/ day_update_usage

(***************************************************************************)
(* The filters of one search and the two queries they constrain:           *)
(* ElasticsearchService.search_documents and                               *)
(* VectorSearchService.search_vectors.                                     *)
(***************************************************************************)
\* documents the backends index
MaxDocs == 2

KnowledgeBaseIds == {"kb1", "kb2"}

FileTypes == {"pdf", "txt"}

\* what both backends store of a document's chunks
Documents ==
    [owner_id : UserIds, knowledge_base_id : KnowledgeBaseIds,
     file_type : FileTypes]

FilterValues(key) ==
    CASE key = "owner_id" -> UserIds
      [] key = "knowledge_base_id" -> KnowledgeBaseIds
      [] key = "file_type" -> FileTypes

\* the dicts SearchService.search builds: owner_id always, knowledge_base_id
\* and file_type when the request names them
SearchFilters ==
    UNION {{f \in [K -> UserIds \cup KnowledgeBaseIds \cup FileTypes] :
               \A key \in K : f[key] \in FilterValues(key)} :
           K \in {K \in SUBSET {"owner_id", "knowledge_base_id", "file_type"} :
                     "owner_id" \in K}}

\* the keys search_documents turns into term filters
search_documents_keys ==
    {"knowledge_base_id", "owner_id", "file_type", "language"}

\* the keys search_vectors turns into FieldConditions
search_vectors_keys == {"knowledge_base_id", "owner_id", "file_id"}

\* the documents that pass the conditions a backend built of the filters
filtered(docs, f, keys) ==
    {d \in docs : \A key \in DOMAIN f \cap keys : d[key] = f[key]}

NoQuery == [kind |-> "none", docs |-> {}]

FilterAtRest ==
    /\ collection = {}
    /\ filters = [key \in {"owner_id"} |-> "u1"]
    /\ es_query = [kind |-> "returned", docs |-> {}]
    /\ vector_query = [kind |-> "returned", docs |-> {}]

InitFilter ==
    /\ collection \in {c \in SUBSET Documents : Cardinality(c) <= MaxDocs}
    /\ filters \in SearchFilters
    /\ es_query = NoQuery
    /\ vector_query = NoQuery

\* es_service.search_documents(query, filters): the hits are documents that
\* match the query text among those that pass the term filters; a failure
\* of the backend leaves as SearchError
search_documents ==
    /\ es_query = NoQuery
    /\ \/ \E hits \in SUBSET filtered(collection, filters,
                                      search_documents_keys) :
             es_query' = [kind |-> "returned", docs |-> hits]
       \/ es_query' = [kind |-> "raised", docs |-> {}]
    /\ UNCHANGED <<ai_vars, chain_vars, search_vars, split_vars, route_vars,
                   day_vars, collection, filters, vector_query>>

\* vector_service.search_vectors(query_vector, filters): the matches are
\* documents near the query vector among those that pass the Filter; a
\* failure of the backend leaves as SearchError
search_vectors ==
    /\ vector_query = NoQuery
    /\ \/ \E matches \in SUBSET filtered(collection, filters,
                                         search_vectors_keys) :
             vector_query' = [kind |-> "returned", docs |-> matches]
       \/ vector_query' = [kind |-> "raised", docs |-> {}]
    /\ UNCHANGED <<ai_vars, chain_vars, search_vars, split_vars, route_vars,
                   day_vars, collection, filters, es_query>>

NextFilter == search_documents \/ search_vectors

(***************************************************************************)
(* Specifications.                                                         *)
(***************************************************************************)
\* concurrent process_request calls
Init ==
    /\ InitAI /\ ChainAtRest /\ SearchAtRest /\ SplitAtRest /\ RouteAtRest
    /\ DayAtRest /\ FilterAtRest

Spec == Init /\ [][NextAI]_vars

\* one process_request call, for a request of every type
InitProcessRequest ==
    /\ InitOneCall /\ ChainAtRest /\ SearchAtRest /\ SplitAtRest /\ RouteAtRest
    /\ DayAtRest /\ FilterAtRest

SpecOneCall == InitProcessRequest /\ [][NextOneCall]_vars

\* walks of the fallback chain
InitChainWalk ==
    /\ AIAtRest /\ InitChain /\ SearchAtRest /\ SplitAtRest /\ RouteAtRest
    /\ DayAtRest /\ FilterAtRest

SpecChain == InitChainWalk /\ [][NextChain]_vars

\* one _hybrid_search call
InitHybridSearch ==
    /\ AIAtRest /\ ChainAtRest /\ InitSearch /\ SplitAtRest /\ RouteAtRest
    /\ DayAtRest /\ FilterAtRest

SpecSearch == InitHybridSearch /\ [][NextSearch]_vars

\* the end of one _hybrid_search call
InitSortAndReturn ==
    /\ AIAtRest /\ ChainAtRest /\ InitSort /\ SplitAtRest /\ RouteAtRest
    /\ DayAtRest /\ FilterAtRest

SpecSort == InitSortAndReturn /\ [][NextSort]_vars

\* one _split_text call
InitSplitText ==
    /\ AIAtRest /\ ChainAtRest /\ SearchAtRest /\ InitSplit /\ RouteAtRest
    /\ DayAtRest /\ FilterAtRest

SpecSplit == InitSplitText /\ [][NextSplit]_vars

\* one select_provider call
InitSelectProvider ==
    /\ AIAtRest /\ ChainAtRest /\ SearchAtRest /\ SplitAtRest /\ InitRoute
    /\ DayAtRest /\ FilterAtRest

SpecRoute == InitSelectProvider /\ [][NextRoute]_vars

\* usage calls of one user while the clock runs
InitUsageDay ==
    /\ AIAtRest /\ ChainAtRest /\ SearchAtRest /\ SplitAtRest /\ RouteAtRest
    /\ InitDay /\ FilterAtRest

SpecDay == InitUsageDay /\ [][NextDay]_vars

\* the two queries of one search
InitQueries ==
    /\ AIAtRest /\ ChainAtRest /\ SearchAtRest /\ SplitAtRest /\ RouteAtRest
    /\ DayAtRest /\ InitFilter

SpecFilter == InitQueries /\ [][NextFilter]_vars

(***************************************************************************)
(* What the calls have done, read from the history.                        *)
(***************************************************************************)
Received(r) == pc[r] # "idle"

Took(r, op, detail) == \E i \in 1..Len(trace[r]) : trace[r][i] = <<op, detail>>

\* what call r has added to the counter `field` of user u
Added(u, field, r) ==
    IF ~Received(r) \/ request[r].user_id # u THEN 0
    ELSE IF field = "requests" THEN Count(r, "incr", "incr_requests")
    ELSE IF field = "tokens"
         THEN Count(r, "incr", "incr_tokens") * completion[r].total_tokens
    ELSE IF field = provider_name[r] THEN Count(r, "incr", "incr_provider")
    ELSE 0

RECURSIVE AddedUpTo(_, _, _)
AddedUpTo(u, field, n) ==
    IF n = 0 THEN 0 ELSE Added(u, field, n) + AddedUpTo(u, field, n - 1)

\* the counters hold what they held when the calls began plus what the
\* update_usage steps of the calls have added
CountersAccountedFor ==
    \A u \in UserIds, field \in UsageFields :
        redis_usage[u][field] =
            prior_usage[u][field] + AddedUpTo(u, field, NumRequests)

\* two requests that differ at most in user id and user tier
SameQuestion(q1, q2) ==
    /\ q1.request_type = q2.request_type
    /\ q1.content = q2.content
    /\ q1.temperature = q2.temperature
    /\ q1.max_tokens = q2.max_tokens
    /\ q1.context = q2.context
    /\ q1.system_prompt = q2.system_prompt

(***************************************************************************)
(* Claims.                                                                 *)
(***************************************************************************)
\* C1: for a user whose requests all carry a tier with a positive daily
\* limit L, the daily request counter never exceeds L, however the calls of
\* the user interleave.
C1_QuotaNeverExceeded ==
    \A u \in UserIds, tier \in UserTier :
        ( /\ daily_requests_limit(tier) > 0
          /\ \A r \in Calls :
                Received(r) /\ request[r].user_id = u
                    => request[r].user_tier = tier )
        => redis_usage[u]["requests"] <= daily_requests_limit(tier)

\* C2: after the invocation of a provider failed, process_request invokes the
\* next provider of the fallback chain, and it ends with the provider's error
\* only when the failed provider was the last of the chain.
C2_FailureAdvancesFallbackChain ==
    \A r \in Calls :
        /\ \A i \in 1..Len(trace[r]) :
              ( /\ trace[r][i][1] = "call_failed"
                /\ get_fallback_provider(trace[r][i][2]) # NoneVal )
              => /\ i = Len(trace[r]) => ~Ended(r)
                 /\ i < Len(trace[r]) =>
                       /\ trace[r][i + 1][1] \in {"call_ok", "call_failed"}
                       /\ trace[r][i + 1][2] =
                              get_fallback_provider(trace[r][i][2])
        /\ result[r].kind = "AIServiceError" =>
              /\ invoked(r) # <<>>
              /\ get_fallback_provider(invoked(r)[Len(invoked(r))][2]) = NoneVal

\* C3: a call that check_usage_limit denies ends with the quota error, has
\* invoked no provider, has looked nothing up in the cache, returns no
\* response and has changed no usage counter.
C3_QuotaDenialShortCircuits ==
    /\ CountersAccountedFor
    /\ \A r \in Calls :
          Took(r, "check", "deny") =>
              /\ usage_limit_reached(request[r].user_tier,
                                     redis_usage[request[r].user_id]["requests"])
              /\ pc[r] = "raised"
              /\ result[r] = Raised("RateLimitError")
              /\ trace[r] = << <<"check", "deny">> >>
              /\ invoked(r) = <<>>
              /\ \A f \in UsageFields : Added(request[r].user_id, f, r) = 0

C3_Witness ==
    \E r \in Calls : Took(r, "check", "deny") /\ result[r].kind = "RateLimitError"

\* C4: a call that returns a response a provider produced has incremented
\* the daily request counter exactly once and has added the tokens consumed
\* to the token counter: 0 when the local responder produced the response.
C4_ReturnedResponseIsCounted ==
    \A r \in Calls :
        (pc[r] = "done" /\ result[r].source \in {"provider", "fallback"}) =>
            /\ Added(request[r].user_id, "requests", r) = 1
            /\ Added(request[r].user_id, "tokens", r) =
                  IF result[r].response.provider = "local" THEN 0
                  ELSE result[r].response.tokens_used

\* C5: no response that the local degraded responder produced is ever stored
\* in the response cache.
C5_NoDegradedResponseCached ==
    \A k \in DOMAIN redis_cache :
        /\ redis_cache[k].value.provider # "local"
        /\ redis_cache[k].value.content # LocalContent

\* C6 as stated: a call that repeats the request of an earlier, ended call
\* within the TTL, neither of them denied, is answered from the cache and
\* invokes no provider.
C6_RepeatAnsweredFromCache ==
    \A r1 \in Calls, r2 \in Calls :
        ( /\ r1 \in started_after[r2]
          /\ request[r1] = request[r2]
          /\ ~ttl_elapsed
          /\ Ended(r2)
          /\ result[r1].kind # "RateLimitError"
          /\ result[r2].kind # "RateLimitError" )
        => result[r2].source = "cache" /\ invoked(r2) = <<>>

\* C6 amended: when the earlier call stored its response in the cache and
\* the entry has not expired, a call that repeats the request, passes the
\* quota check and whose cache lookup does not fail is answered from the
\* cache and invokes no provider.
C6_RepeatOfStoredAnsweredFromCache ==
    \A r1 \in Calls, r2 \in Calls :
        ( /\ r1 \in started_after[r2]
          /\ request[r1] = request[r2]
          /\ Took(r1, "store", "ok")
          /\ ~ttl_elapsed
          /\ Took(r2, "check", "pass")
          /\ Len(trace[r2]) >= 2
          /\ trace[r2][2] # <<"lookup", "error">> )
        => /\ trace[r2] = << <<"check", "pass">>, <<"lookup", "hit">> >>
           /\ pc[r2] = "done"
           /\ result[r2].source = "cache"
           /\ result[r2].response.request_type = request[r2].request_type
           /\ invoked(r2) = <<>>

C6_Witness ==
    \E r1 \in Calls, r2 \in Calls :
        /\ r1 \in started_after[r2]
        /\ request[r1] = request[r2]
        /\ Took(r1, "store", "ok")
        /\ ~ttl_elapsed
        /\ pc[r2] = "done"
        /\ result[r2] = Returned("cache", result[r1].response)

\* C7: two requests that differ only in user id or user tier map to the
\* same cache key.
C7_CacheKeyIgnoresUser ==
    \A r1 \in Calls, r2 \in Calls :
        ( /\ Received(r1)
          /\ Received(r2)
          /\ SameQuestion(request[r1], request[r2]) )
        => cache_key_of(request[r1]) = cache_key_of(request[r2])

\* C8: a failure of the cache backend is treated as a miss and never
\* propagated: after a failed lookup the call goes on to read the usage and
\* select a provider, as after a miss, and after a failed store it returns
\* the provider's response without an error annotation.
C8_CacheFailureIsAMiss ==
    \A r \in Calls :
        \A i \in 1..Len(trace[r]) :
            /\ trace[r][i] = <<"lookup", "error">> =>
                  /\ i = Len(trace[r]) =>
                        /\ pc[r] = "get_current_usage"
                        /\ result[r] = NoResult
                  /\ i < Len(trace[r]) => trace[r][i + 1][1] = "usage"
            /\ trace[r][i] = <<"store", "error">> =>
                  /\ i = Len(trace[r])
                  /\ pc[r] = "done"
                  /\ result[r] = Returned("provider", ai_response(r))
                  /\ result[r].response.error = NoneVal

C8_Witness ==
    \E r \in Calls :
        /\ Took(r, "lookup", "error")
        /\ Took(r, "store", "error")
        /\ pc[r] = "done"
        /\ result[r].kind = "response"

\* C9: from any provider id, get_fallback_provider reaches None in at most 3
\* hops without visiting a provider twice, and every call of the provider the
\* chain ends in returns a well-formed completion.
C9_FallbackChainEndsInLocal ==
    /\ Len(chain_path) <= 3
    /\ Len(chain_path) = 3 => chain_cur = NoneVal
    /\ \A i \in 1..Len(chain_path), j \in 1..Len(chain_path) :
          i # j => chain_path[i] # chain_path[j]
    /\ \A i \in 1..Len(chain_path) : chain_path[i] # chain_cur
    /\ local_calls > 0 =>
          /\ \/ chain_cur = "local"
             \/ /\ chain_cur = NoneVal
                /\ chain_path # <<>>
                /\ chain_path[Len(chain_path)] = "local"
          /\ local_result.content = LocalContent
          /\ local_result.finish_reason = "stop"
          /\ local_result.total_tokens = LocalContentLen

C9_Witness ==
    /\ chain_path = <<"openai", "siliconflow", "local">>
    /\ chain_cur = NoneVal
    /\ local_calls = MaxLocalCalls

\* the search_type tag of an entry of the output
TagOf(entry) ==
    IF "search_type" \in DOMAIN entry THEN entry.search_type ELSE NoneVal

MaxScore(S) == CHOOSE x \in S : \A y \in S : x >= y

\* C10: when the lexical query has answered and the lexical and the vector
\* backend both return a source id, _hybrid_search returns a list with exactly
\* one entry for the id, carrying the higher score and the tag "merged"; an
\* entry only one method returned carries that method's tag.
C10_DuplicateIdMergedWithMaxScore ==
    ( /\ search_pc = "ended"
      /\ search_call.entry = "_hybrid_search"
      /\ search_args.use_vector
      /\ search_outcome.error # "SearchError" )
    => LET lex == Take(es_index, search_args.limit)
           vec == Take(vector_index, search_args.limit)
           out == search_outcome.results
           LexScores(id) == {lex[i].score : i \in {j \in 1..Len(lex) :
                                                     lex[j].file_id = id}}
           VecScores(id) == {vec[i].score : i \in {j \in 1..Len(vec) :
                                                     vec[j].file_id = id}}
           Entries(id) == {i \in 1..Len(out) : out[i].file_id = id}
       IN  \A id \in FileIds :
              /\ (LexScores(id) # {} /\ VecScores(id) # {}) =>
                    /\ search_outcome.kind = "returned"
                    /\ Cardinality(Entries(id)) = 1
                    /\ \A i \in Entries(id) :
                          /\ out[i].score =
                                MaxScore(LexScores(id) \cup VecScores(id))
                          /\ TagOf(out[i]) = "merged"
              /\ (LexScores(id) # {} /\ VecScores(id) = {}) =>
                    \A i \in Entries(id) : TagOf(out[i]) = "keyword"
              /\ (LexScores(id) = {} /\ VecScores(id) # {}) =>
                    \A i \in Entries(id) : TagOf(out[i]) = "vector"

\* the hits of the lexical backend that a _hybrid_search call asks for
LexicalHits == Take(es_index, search_args.limit)

\* a _hybrid_search call, entered directly, has ended
HybridSearchEnded ==
    search_pc = "ended" /\ search_call.entry = "_hybrid_search"

\* C11: when the lexical backend answers and the vector backend does not,
\* _hybrid_search does not fail: it returns the lexical results, in their
\* order, each with the tag "keyword".
C11_VectorFailureDegradesToLexical ==
    ( /\ HybridSearchEnded
      /\ search_args.use_vector
      /\ backends.lexical
      /\ ~backends.vector )
    => /\ search_outcome.kind = "returned"
       /\ Len(search_outcome.results) = Len(LexicalHits)
       /\ \A i \in 1..Len(LexicalHits) :
             /\ search_outcome.results[i].file_id = LexicalHits[i].file_id
             /\ search_outcome.results[i].score = LexicalHits[i].score
             /\ TagOf(search_outcome.results[i]) = "keyword"

\* C12: when the lexical backend does not answer, _hybrid_search still issues
\* the vector query and returns instead of failing.
C12_LexicalFailureLeavesVectorBranch ==
    ( /\ HybridSearchEnded
      /\ search_args.use_vector
      /\ ~backends.lexical )
    => /\ search_outcome.kind = "returned"
       /\ branches.vector # "none"

\* C13: a search that the cache did not answer returns a response; the
\* response carries partial = TRUE when one of the two backends did not
\* answer, and no partial flag when both answered.
C13_PartialSearchIsFlagged ==
    ( /\ search_pc = "ended"
      /\ search_call.entry = "search"
      /\ ~search_call.cached
      /\ search_args.use_vector
      /\ backends.lexical \/ backends.vector )
    => /\ search_result.kind = "returned"
       /\ IF backends.lexical /\ backends.vector
          THEN "partial" \notin DOMAIN search_result.fields
          ELSE /\ "partial" \in DOMAIN search_result.fields
               /\ search_result.fields.partial = TRUE

\* the characters an iteration took: text[start:end] as Python reads the
\* offsets, a pair <<from, to>> with from <= to
Cut(span) ==
    LET a == slice_index(span[1], Len(text))
        b == slice_index(span[2], Len(text))
    IN  IF a >= b THEN <<a, a>> ELSE <<a, b>>

\* how many characters the cuts of iterations i and i + 1 share
Shared(i) ==
    LET c == Cut(spans[i])
        d == Cut(spans[i + 1])
        lo == IF c[1] >= d[1] THEN c[1] ELSE d[1]
        hi == IF c[2] <= d[2] THEN c[2] ELSE d[2]
    IN  IF hi > lo THEN hi - lo ELSE 0

\* C14: the spans _split_text cuts, in order, cover [0, L) without a gap, and
\* every adjacent pair of spans other than the trailing pair shares at least
\* `overlap` characters.
C14_SpansCoverWithOverlap ==
    /\ split_pc = "returned" =>
          /\ spans # <<>>
          /\ Cut(spans[1])[1] = 0
          /\ Cut(spans[Len(spans)])[2] = Len(text)
          /\ \A i \in 1..Len(spans) - 1 :
                Cut(spans[i + 1])[1] <= Cut(spans[i])[2]
    /\ \A i \in 1..Len(spans) - 2 : Shared(i) >= overlap

\* C15: the start offset of every iteration of the loop of _split_text is
\* strictly greater than that of the iteration before it.
C15_StartStrictlyIncreases ==
    \A i \in 1..Len(spans) - 1 : spans[i][1] < spans[i + 1][1]

\* C16: _split_text of the empty text returns the empty sequence of chunks.
C16_EmptyTextYieldsNoChunks ==
    (split_pc = "returned" /\ text = <<>>) => chunks = <<>>

\* call r of user u has completed update_usage
UpdateCompleted(u, r) ==
    Received(r) /\ request[r].user_id = u /\ Took(r, "expire", "ok")

\* call r has incremented no counter of user u
UpdateNotBegun(u, r) ==
    ~Received(r) \/ request[r].user_id # u
        \/ Count(r, "incr", "incr_requests") = 0

\* the sum of the tokens_used arguments of the completed update_usage calls
\* of user u among the calls 1..n
RECURSIVE TokensArgued(_, _)
TokensArgued(u, n) ==
    IF n = 0 THEN 0
    ELSE TokensArgued(u, n - 1)
         + (IF UpdateCompleted(u, n) THEN completion[n].total_tokens ELSE 0)

\* C17: when N update_usage calls of a user have completed, in any
\* interleaving, and no other call has touched the counters, the daily request
\* counter has grown by exactly N and the token counter by exactly the sum of
\* the tokens_used arguments.
C17_IncrementsAreNotLost ==
    \A u \in UserIds :
        (\A r \in Calls : UpdateCompleted(u, r) \/ UpdateNotBegun(u, r))
        => /\ redis_usage[u]["requests"] =
                 prior_usage[u]["requests"]
                 + Cardinality({r \in Calls : UpdateCompleted(u, r)})
           /\ redis_usage[u]["tokens"] =
                 prior_usage[u]["tokens"] + TokensArgued(u, NumRequests)

\* two calls of one user, neither begun after the other ended, have both
\* completed update_usage
C17_Witness ==
    \E r1 \in Calls, r2 \in Calls :
        /\ r1 # r2
        /\ UpdateCompleted("u1", r1)
        /\ UpdateCompleted("u1", r2)
        /\ r1 \notin started_after[r2]
        /\ r2 \notin started_after[r1]
        /\ redis_usage["u1"]["requests"] = prior_usage["u1"]["requests"] + 2

\* values of the daily request counter on both sides of the limits of the
\* free and the pro tier
CounterValues ==
    UsageCounts \cup {pro_tier_daily_limit - 1, pro_tier_daily_limit,
                      pro_tier_daily_limit + 1}

\* C18: check_usage_limit never denies a request of an enterprise user,
\* whatever the daily request counter holds: the comparison is never TRUE for
\* the enterprise tier, and no enterprise call ends with the quota error.
C18_EnterpriseNeverDenied ==
    /\ \A n \in CounterValues : ~usage_limit_reached("enterprise", n)
    /\ \A r \in Calls :
          (Received(r) /\ request[r].user_tier = "enterprise") =>
              /\ ~Took(r, "check", "deny")
              /\ result[r].kind # "RateLimitError"

\* an enterprise call passes the check after the user's counter has reached
\* the free tier's limit
C18_Witness ==
    \E r1 \in Calls, r2 \in Calls :
        /\ r1 \in started_after[r2]
        /\ UpdateCompleted(request[r2].user_id, r1)
        /\ prior_usage[request[r2].user_id]["requests"] + 1
              >= free_tier_daily_limit
        /\ request[r2].user_tier = "enterprise"
        /\ Took(r2, "check", "pass")

\* C19: for the free tier select_provider returns siliconflow exactly while
\* the siliconflow count of the day is below the free limit, and local once
\* it is not.
C19_FreeTierRouting ==
    (route_result # NoneVal /\ route_args.user_tier = "free") =>
        /\ route_args.siliconflow_daily < free_tier_daily_limit
              => route_result = "siliconflow"
        /\ route_args.siliconflow_daily >= free_tier_daily_limit
              => route_result = "local"
        /\ route_result = "local" =>
              get_fallback_provider(route_result) = NoneVal

\* select_provider has sent a free request to local at the limit
C19_Witness ==
    /\ route_args.user_tier = "free"
    /\ route_args.siliconflow_daily = free_tier_daily_limit
    /\ route_result = "local"

\* C20: for the pro tier select_provider returns openai when the key is
\* configured and the request type is creative_writing or code_generation,
\* and siliconflow in every other case.
C20_ProTierRouting ==
    (route_result # NoneVal /\ route_args.user_tier = "pro") =>
        route_result =
            IF /\ route_args.openai_key
               /\ route_args.request_type
                     \in {"creative_writing", "code_generation"}
            THEN "openai" ELSE "siliconflow"

\* C21: the list _hybrid_search returns is in non-increasing order of score
\* and holds at most `limit` entries, whatever the lexical branch, the vector
\* branch and the enhancement left in `results`.
C21_ReturnedListSortedAndCut ==
    search_outcome.kind = "returned" =>
        /\ NonIncreasing(search_outcome.results)
        /\ Len(search_outcome.results) <= search_args.limit
        /\ search_outcome.results = Take(results, search_args.limit)

\* a list longer than limit came back cut to limit, scores falling
C21_Witness ==
    /\ search_outcome.kind = "returned"
    /\ search_args.use_ai
    /\ Len(results) > search_args.limit
    /\ Len(search_outcome.results) = search_args.limit
    /\ Len(search_outcome.results) >= 2
    /\ search_outcome.results[1].score > search_outcome.results[2].score

\* C22: every cache entry is stored with the TTL of its request type: 2 hours
\* for classification, 30 minutes for summarization, 5 minutes for
\* qa_response, 24 hours for translation.
C22_EntryStoredWithTTLOfItsType ==
    \A k \in DOMAIN redis_cache :
        LET request_type == k[2]
            ttl == redis_cache[k].ttl
        IN  /\ request_type = "classification" => ttl = ttl_classification
            /\ request_type = "summarization" => ttl = ttl_summary
            /\ request_type = "qa_response" => ttl = ttl_qa_response
            /\ request_type = "translation" => ttl = ttl_translation

\* C23: every usage call addresses the counter of the current UTC date: two
\* calls made on the same UTC day hit the same counter, and a check reads
\* the number of updates made since 00:00 UTC, whatever the server's time
\* zone.
C23_QuotaWindowIsTheUTCDay ==
    \A i \in 1..Len(usage_log) :
        /\ usage_log[i].today = strftime_date(usage_log[i].utc)
        /\ \A j \in 1..Len(usage_log) :
              strftime_date(usage_log[j].utc) = strftime_date(usage_log[i].utc)
                  <=> usage_log[j].today = usage_log[i].today
        /\ usage_log[i].op = "check" =>
              usage_log[i].daily_requests =
                  Cardinality({j \in 1..(i - 1) :
                      /\ usage_log[j].op = "update"
                      /\ strftime_date(usage_log[j].utc) =
                             strftime_date(usage_log[i].utc)})

\* the cache lookup of the call came back without an entry before step i of
\* its history: a miss, or a failure of the backend, which the cache swallows
MissBefore(r, i) ==
    \E j \in 1..(i - 1) :
        trace[r][j] \in {<<"lookup", "miss">>, <<"lookup", "error">>}

\* C24 as stated: every call takes its steps in the order quota check, cache
\* lookup, invocation, usage update, cache store; no provider is invoked
\* before the lookup came back without an entry, and nothing is stored before
\* the usage update has completed.
C24_StepsInOrder ==
    \A r \in Calls : \A i \in 1..Len(trace[r]) :
        /\ IsInvocation(trace[r][i]) => MissBefore(r, i)
        /\ trace[r][i][1] = "store" =>
              \E j \in 1..(i - 1) : trace[r][j] = <<"expire", "ok">>

\* C24, amended: the steps of a call are, in this order, the quota check, the
\* cache lookup, the counter read with the selection, the invocation of the
\* selected provider, the three increments and the expiry of the usage
\* update, and the cache store; the selected provider is invoked only after
\* the lookup came back without an entry, the store follows the completed
\* update, and the local model of _fallback_processing is invoked only as
\* the last step, right after a step that failed unexpectedly.
C24_SelectedProviderAfterMissStoreAfterUpdate ==
    \A r \in Calls : \A i \in 1..Len(trace[r]) :
        LET t == trace[r]
        IN  /\ t[i][1] = "check" => i = 1
            /\ t[i][1] = "lookup" => i = 2 /\ t[1] = <<"check", "pass">>
            /\ t[i][1] = "usage" => i = 3 /\ MissBefore(r, i)
            /\ t[i][1] \in {"call_ok", "call_failed"} =>
                  /\ i = 4
                  /\ MissBefore(r, i)
                  /\ t[3] = <<"usage", "read">>
                  /\ t[i][2] = provider_name[r]
            /\ t[i][1] \in {"incr", "incr_error"} =>
                  /\ i \in 5..7
                  /\ t[4] = <<"call_ok", provider_name[r]>>
                  /\ t[i][2] = <<"incr_requests", "incr_tokens",
                                 "incr_provider">>[i - 4]
                  /\ \A j \in 5..(i - 1) : t[j][1] = "incr"
            /\ t[i][1] = "expire" =>
                  i = 8 /\ \A j \in 5..7 : t[j][1] = "incr"
            /\ t[i][1] = "store" => i = 9 /\ t[8] = <<"expire", "ok">>
            /\ t[i][1] = "fallback" =>
                  /\ i = Len(t)
                  /\ i > 1
                  /\ t[i - 1] \in {<<"check", "error">>, <<"usage", "error">>,
                                   <<"expire", "error">>}
                     \/ t[i - 1][1] = "incr_error"

\* a call has gone through all the steps and stored its response
C24_Witness ==
    \E r \in Calls :
        /\ pc[r] = "done"
        /\ Len(trace[r]) = 9
        /\ trace[r][2] = <<"lookup", "miss">>
        /\ trace[r][9] = <<"store", "ok">>

\* C25: a response process_request returns carries the error annotation
\* exactly when its content was produced by the local model: the local
\* model's apology never comes back with the annotation unset, another
\* provider's answer never with it set.
C25_AnnotationMarksLocalAnswers ==
    \A r \in Calls :
        result[r].kind = "response" =>
            /\ result[r].response.content = LocalContent =>
                  result[r].response.error # NoneVal
            /\ result[r].response.content # LocalContent =>
                  result[r].response.error = NoneVal

\* a document meets every filter of the search
Satisfies(doc, f) == \A key \in DOMAIN f : doc[key] = f[key]

Overlap(r, s) ==
    /\ Received(r) /\ Received(s)
    /\ s \notin started_after[r]
    /\ r \notin started_after[s]

\* C27: the siliconflow counter never exceeds the request counter, so a
\* free-tier call that passed the quota check is routed to the local model
\* only if the counters of its user grew between its check and its read for
\* routing, by the update of another call of that user that overlaps it;
\* a call no other call of its user overlaps is routed to siliconflow.
C27_FreeRoutedLocalOnlyByInterleaving ==
    /\ \A u \in UserIds :
          redis_usage[u]["siliconflow"] <= redis_usage[u]["requests"]
    /\ \A r \in Calls :
          ( /\ Received(r)
            /\ request[r].user_tier = "free"
            /\ provider_name[r] # NoneVal )
          => /\ Took(r, "check", "pass")
             /\ seen[r].check < free_tier_daily_limit
             /\ provider_name[r] \in {"siliconflow", "local"}
             /\ provider_name[r] = "local" =>
                   /\ seen[r].route >= free_tier_daily_limit
                   /\ seen[r].route > seen[r].check
                   /\ \E s \in Calls \ {r} :
                         /\ Overlap(r, s)
                         /\ request[s].user_id = request[r].user_id
                         /\ Took(s, "incr", "incr_requests")
                         /\ Took(s, "incr", "incr_provider")
             /\ (\A s \in Calls \ {r} :
                     Received(s) /\ request[s].user_id = request[r].user_id
                         => ~Overlap(r, s))
                   => provider_name[r] = "siliconflow"

\* a free-tier call was routed to the local model after another call of its
\* user had moved the counters past the limit
C27_Witness ==
    \E r \in Calls :
        /\ Received(r)
        /\ request[r].user_tier = "free"
        /\ provider_name[r] = "local"
        /\ seen[r].check = free_tier_daily_limit - 1
        /\ seen[r].route = free_tier_daily_limit

\* C28: a call answered from the response cache has added nothing to any
\* usage counter of its user: the counters hold what the update_usage steps of
\* the other calls account for.
C28_CacheHitLeavesCountersUnchanged ==
    /\ CountersAccountedFor
    /\ \A r \in Calls :
          Took(r, "lookup", "hit") =>
              /\ pc[r] = "done"
              /\ result[r].source = "cache"
              /\ trace[r] = << <<"check", "pass">>, <<"lookup", "hit">> >>
              /\ \A f \in UsageFields : Added(request[r].user_id, f, r) = 0

\* a call was answered from the cache with the entry an earlier call of the
\* same user had stored, and the counters show that one request only
C28_Witness ==
    \E r \in Calls, s \in Calls :
        /\ Took(r, "lookup", "hit")
        /\ result[r].source = "cache"
        /\ Took(s, "store", "ok")
        /\ request[s].user_id = request[r].user_id
        /\ redis_usage[request[r].user_id]["requests"] =
               prior_usage[request[r].user_id]["requests"] + 1

\* an operation of the usage store failed for call r: its counter read before
\* routing, or an INCR or the EXPIRE of its update_usage
UsageStoreFailed(r) ==
    \/ Took(r, "usage", "error")
    \/ Took(r, "expire", "error")
    \/ \E i \in 1..Len(trace[r]) : trace[r][i][1] = "incr_error"

\* C29: a call for which an operation of the usage store failed raises
\* nothing and does not return the provider's answer: it returns the local
\* model's response with the error annotation and tokens_used = 0, and it has
\* written no cache entry.
C29_UsageStoreFailureDegrades ==
    \A r \in Calls :
        UsageStoreFailed(r) =>
            /\ pc[r] \in {"fallback", "done"}
            /\ ~Took(r, "store", "ok") /\ ~Took(r, "store", "error")
            /\ pc[r] = "fallback" => result[r] = NoResult
            /\ pc[r] = "done" =>
                  /\ trace[r][Len(trace[r])] = <<"fallback", "local">>
                  /\ result[r] =
                         Returned("fallback",
                                  AIResponse(LocalContent, "local", 0,
                                             request[r].request_type,
                                             "degraded"))
                  /\ result[r].response.error # NoneVal

\* a remote provider had answered, an increment of the update then failed,
\* and the call returned the degraded response
C29_Witness ==
    \E r \in Calls :
        /\ Took(r, "call_ok", "siliconflow")
        /\ completion[r].content = RemoteContent
        /\ Took(r, "incr", "incr_requests")
        /\ Took(r, "incr_error", "incr_tokens")
        /\ pc[r] = "done"
        /\ result[r].source = "fallback"
        /\ cache_key_of(request[r]) \notin DOMAIN redis_cache

\* C30: a response SearchService.search returns, from the cache or built
\* from _hybrid_search's list, holds at most `limit` results. (No search
\* call of SpecSearch returns a response, see C13: the formula holds with
\* nothing to hold for.)
C30_ReturnedResponseWithinLimit ==
    search_result.kind = "returned" =>
        Len(search_result.fields.results) <= search_args.limit

====
